---- MODULE Spec2Model ----
(***************************************************************************)
(* A model of sst (Simple State Tree), src/sst.js: a store holding one     *)
(* root snapshot, bound transforms and selectors built from a definitions  *)
(* tree, a middleware chain ending in leafMiddleware, and the promises     *)
(* that deferred transforms leave in flight.                               *)
(***************************************************************************)
EXTENDS Integers, Sequences, FiniteSets, Bags, TLC

(***************************************************************************)
(* Bounds of the model.                                                    *)
(***************************************************************************)
\* numbers 0 .. MaxNum are the numeric values a slice may hold
MaxNum == 1
\* at most MaxPromises promises are in flight at a time
MaxPromises == 2

(***************************************************************************)
(* JavaScript values.  Every value is a record of the same shape, so that  *)
(* any two values can be compared: undefined, null, a number, or an object *)
(* with own enumerable properties f.                                       *)
(***************************************************************************)
NoFields == [k \in {} |-> 0]

Undefined == [tag |-> "undefined", n |-> 0, f |-> NoFields]

Null == [tag |-> "null", n |-> 0, f |-> NoFields]

Num(i) == [tag |-> "number", n |-> i, f |-> NoFields]

Obj(fields) == [tag |-> "object", n |-> 0, f |-> fields]

\* property keys are strings, kept as <<first character, the rest>> so that
\* key[0] of the source is key[1] here
EmptyKey == <<"", "">>

\* ToBoolean(v)
Truthy(v) == v.tag = "object" \/ (v.tag = "number" /\ v.n # 0)

\* v[k] for a value that is not null or undefined
Get(v, k) == IF v.tag = "object" /\ k \in DOMAIN v.f THEN v.f[k] ELSE Undefined

\* Object.assign({}, v): the own properties of v, none for a primitive
ObjectAssign(v) == IF v.tag = "object" THEN Obj(v.f) ELSE Obj(NoFields)

\* copy[k] = x on an object
Put(o, k, x) == Obj([j \in (DOMAIN o.f) \cup {k} |-> IF j = k THEN x ELSE o.f[j]])

(***************************************************************************)
(* User code handed to the store.  A user function is described by what it *)
(* does when called: the shape of what it returns (res) and how the value  *)
(* is computed from its arguments (body).  A higher-order transform        *)
(* returns a thunk, described by the store calls it makes in order         *)
(* (script) and by what the thunk itself returns (tret).                   *)
(***************************************************************************)
Fn(res, body) ==
  [res |-> res, body |-> body, script |-> <<>>, tret |-> "undefined", tval |-> Undefined]

\* tret is "undefined", "value" (the thunk returns tval) or "promise" (the
\* thunk returns a promise that will settle with tval)
HigherOrder(script, tret, tval) ==
  [res |-> "function", body |-> "none", script |-> script, tret |-> tret, tval |-> tval]

\* a thunk's call store.$transform.<path>(args)
CallStep(path, args) == [op |-> "transform", path |-> path, args |-> args, state |-> Undefined]

\* a thunk's call store.setState(state)
SetStateStep(state) == [op |-> "setState", path |-> <<>>, args |-> <<>>, state |-> state]

\* the successor of a number, wrapping at MaxNum; 0 for anything else
Succ(v) == IF v.tag = "number" THEN Num((v.n + 1) % (MaxNum + 1)) ELSE Num(0)

\* the value a user function computes from args = [state, ...callArgs]
Body(fn, args) ==
  CASE fn.body = "arg"   -> IF Len(args) >= 2 THEN args[2] ELSE Undefined
    [] fn.body = "next"  -> Succ(args[1])
    [] fn.body = "state" -> args[1]
    [] fn.body = "init"  ->
         IF Len(args) >= 2 /\ Truthy(args[2]) THEN args[2]
         ELSE IF Truthy(args[1]) THEN args[1] ELSE Num(0)
    [] OTHER             -> Undefined

\* action.apply(null, args): what the call produces.  t is "value", "throw",
\* "promise" (a promise that will settle with v) or "function" (a thunk).
UserApply(fn, args) ==
  [t |-> fn.res,
   v |-> IF fn.res \in {"value", "promise"} THEN Body(fn, args) ELSE Undefined,
   fn |-> fn]

(***************************************************************************)
(* Definitions trees.  An entry of a tree is a key with either a function  *)
(* or an object of functions (a slice definition); a tree is a sequence of *)
(* entries, in the order for..in enumerates them.                          *)
(***************************************************************************)
Member(key, fn) == [key |-> key, fn |-> fn]

RootFn(key, fn) == [key |-> key, type |-> "function", fn |-> fn, members |-> <<>>]

Slice(key, members) ==
  [key |-> key, type |-> "object", fn |-> Fn("value", "none"), members |-> members]

kInitialState == <<"i", "nitialState">>
kCount == <<"c", "ount">>
kOther == <<"o", "ther">>
kName == <<"n", "ame">>
kSet == <<"s", "et">>
kNext == <<"n", "ext">>
kNone == <<"n", "one">>
kLater == <<"l", "ater">>
kFail == <<"f", "ail">>
kTwice == <<"t", "wice">>
kOops == <<"o", "ops">>
kGet == <<"$", "get">>
kReset == <<"r", "eset">>
kLoad == <<"l", "oad">>
kRun == <<"r", "un">>
kIdle == <<"i", "dle">>
kAll == <<"$", "all">>
kPriv == <<"_", "priv">>
kHidden == <<"_", "hidden">>
kSelPriv == <<"$", "_sel">>

(***************************************************************************)
(* The store.                                                              *)
(***************************************************************************)
VARIABLES
  defaults,        \* the defaults object the caller passed to sst
  definitions,     \* the definitions tree the caller passed
  middlewares,     \* the middleware list the caller passed
  phase,           \* "new" before sst runs, then "ready" or "failed"
  failure,         \* what sst threw: "none", "TypeError", "Invalid property"
  root,            \* root.state, the current snapshot
  transformTree,   \* store.$transform: path -> bound transform
  selectorTree,    \* store.$selector: path -> bound selector
  applyMiddleware, \* the chain composed by buildMiddleware
  onChange,        \* whether store.onChange is assigned
  promises,        \* the bag of promises in flight
  last             \* what the latest operation was given, did and returned

vars == <<defaults, definitions, middlewares, phase, failure, root, transformTree,
          selectorTree, applyMiddleware, onChange, promises, last>>

\* a promise in flight: val is what it will be fulfilled with; then is
\* "consumeResult" when sst chained consumeResult on it (for slice
\* stateProp), and "none" when the caller holds the promise itself.
Promise(val, stateProp, then) == [val |-> val, stateProp |-> stateProp, then |-> then]

NoPromise == Promise(Undefined, EmptyKey, "none")

\* what a call returns: a value, or the promise pr
RetValue(v) == [t |-> "value", v |-> v, pr |-> NoPromise]

RetPromise(pr) == [t |-> "promise", v |-> Undefined, pr |-> pr]

\* one thing that happened during an operation: a middleware's code before
\* ("pre") or after ("post") proceed, a user transform called ("action"), a
\* thunk called ("thunk"), setState installing a snapshot ("commit"),
\* onChange called ("change"), the promise handed to the caller fulfilled
\* ("settle") or rejected ("reject").  arg is the value handed over and seen
\* is what getState() returned at that moment.
Event(e, id, arg, seen) == [e |-> e, id |-> id, arg |-> arg, seen |-> seen]

\* The store as one synchronous call sees and changes it: the snapshot, the
\* hook, the promises, the events so far, and how the call ended (err, ret).
\* full is set when the call would put more than MaxPromises promises in
\* flight.
Machine(r, hook, ps) ==
  [root |-> r, hook |-> hook, promises |-> ps, trace |-> <<>>,
   err |-> "none", ret |-> RetValue(Undefined), full |-> FALSE]

Log(M, e, id, arg) == [M EXCEPT !.trace = Append(@, Event(e, id, arg, M.root))]

Throw(M, e) == [M EXCEPT !.err = e]

Return(M, r) == [M EXCEPT !.ret = r]

getState(M) == M.root

\* the new snapshot is merged into the old one
setStateMerges(M, state) ==
  LET merged == IF state.tag = "object" /\ M.root.tag = "object"
                  THEN Obj(state.f @@ M.root.f) ELSE state
      M1 == Log([M EXCEPT !.root = merged], "commit", 0, merged)
      M2 == IF M1.hook THEN Log(M1, "change", 0, merged) ELSE M1
  IN Return(M2, RetValue(merged))

setStateNotifiesFirst(M, state) ==
  LET M1 == IF M.hook THEN Log(M, "change", 0, state) ELSE M
      M2 == Log([M1 EXCEPT !.root = state], "commit", 0, state)
  IN Return(M2, RetValue(state))

\* root.state = state; store.onChange && store.onChange(state); return state
setState(M, state) ==
  LET M1 == Log([M EXCEPT !.root = state], "commit", 0, state)
      M2 == IF M1.hook THEN Log(M1, "change", 0, state) ELSE M1
  IN Return(M2, RetValue(state))

\* the state is read from the snapshot sst built from the defaults
nextArgsCaptured(M, stateProp, args) ==
  IF stateProp = EmptyKey
    THEN [err |-> "none", args |-> <<ObjectAssign(defaults)>> \o args]
  ELSE [err |-> "none", args |-> <<Get(ObjectAssign(defaults), stateProp)>> \o args]

\* [state].concat(args), where state is the root or the slice read now
nextArgs(M, stateProp, args) ==
  IF stateProp = EmptyKey
    THEN [err |-> "none", args |-> <<getState(M)>> \o args]
  ELSE IF getState(M).tag \in {"null", "undefined"}
    THEN [err |-> "TypeError", args |-> <<>>]
  ELSE [err |-> "none", args |-> <<Get(getState(M), stateProp)>> \o args]

\* a result is dropped while another promise for the same target is in flight
consumeResultUnlessPending(M, stateProp, result) ==
  IF \E p \in BagToSet(M.promises) : p.stateProp = stateProp /\ p.then = "consumeResult"
    THEN Return(M, RetValue(result))
    ELSE LET M1 == IF stateProp = EmptyKey
                     THEN setState(M, result)
                     ELSE setState(M, Put(ObjectAssign(getState(M)), stateProp, result))
         IN Return(M1, RetValue(result))

\* the copy is made of the snapshot sst built, not of the current one
consumeResultStale(M, stateProp, result) ==
  LET M1 == IF stateProp = EmptyKey
              THEN setState(M, result)
              ELSE setState(M, Put(ObjectAssign(defaults), stateProp, result))
  IN Return(M1, RetValue(result))

consumeResultNoCopy(M, stateProp, result) ==
  LET M1 == IF stateProp = EmptyKey
              THEN setState(M, result)
              ELSE setState(M, Put(Obj(NoFields), stateProp, result))
  IN Return(M1, RetValue(result))

consumeResultMerges(M, stateProp, result) ==
  LET M1 == IF stateProp = EmptyKey
              THEN setState(M, IF result.tag = "object" /\ getState(M).tag = "object"
                                 THEN Obj(result.f @@ getState(M).f) ELSE result)
              ELSE setState(M, Put(ObjectAssign(getState(M)), stateProp, result))
  IN Return(M1, RetValue(result))

consumeResult(M, stateProp, result) ==
  LET M1 == IF stateProp = EmptyKey
              THEN setState(M, result)
              ELSE setState(M, Put(ObjectAssign(getState(M)), stateProp, result))
  IN Return(M1, RetValue(result))

\* the user code creates one more promise and returns it
NewPromise(M, val, stateProp, then) ==
  IF BagCardinality(M.promises) >= MaxPromises
    THEN [M EXCEPT !.full = TRUE]
    ELSE LET pr == Promise(val, stateProp, then)
         IN Return([M EXCEPT !.promises = @ (+) SetToBag({pr})], RetPromise(pr))

(***************************************************************************)
(* The middleware chain.  A middleware of the caller's list is a record    *)
(* [kind, id]: "pass" runs code, calls next(context), runs code and        *)
(* returns next's result; "drop" does the same and returns nothing;        *)
(* "short" runs code and returns null without calling next.                *)
(***************************************************************************)
Middleware(kind, id) == [kind |-> kind, id |-> id]

\* the closure makeMiddleware returns: fn applied to (context, next)
makeMiddleware(fn, next) == [fn |-> fn, next |-> <<next>>]

\* leafMiddleware as a link of the chain
LeafLink == [fn |-> Middleware("leaf", 0), next |-> <<>>]

RECURSIVE wrapFrom(_, _, _)
\* for (var i = middlewares.length - 1; i >= 0; --i) middleware = makeMiddleware(...)
wrapFrom(mws, i, middleware) ==
  IF i < 1 THEN middleware
  ELSE wrapFrom(mws, i - 1, makeMiddleware(mws[i], middleware))

buildMiddlewareReversed(mws) ==
  wrapFrom([i \in DOMAIN mws |-> mws[Len(mws) + 1 - i]], Len(mws), LeafLink)

buildMiddleware(mws) == wrapFrom(mws, Len(mws), LeafLink)

Context(stateProp, actionName, action, args) ==
  [stateProp |-> stateProp, actionName |-> actionName, action |-> action, args |-> args]

RECURSIVE callMiddleware(_, _, _)
RECURSIVE leafMiddleware(_, _)
RECURSIVE runThunk(_, _, _)
RECURSIVE callTransform(_, _, _)

\* the wrapper calls the next link whether or not the middleware does
callMiddlewareProceeds(link, context, M) ==
  IF link.fn.kind = "leaf" THEN leafMiddleware(context, M)
  ELSE
    LET M1 == Log(M, "pre", link.fn.id, Undefined)
        M2 == callMiddleware(link.next[1], context, M1)
        M3 == Log(M2, "post", link.fn.id, Undefined)
    IN IF M2.err # "none" \/ M2.full THEN M2
       ELSE IF link.fn.kind = "pass" THEN Return(M3, M2.ret)
       ELSE IF link.fn.kind = "short" THEN Return(M3, RetValue(Null))
       ELSE Return(M3, RetValue(Undefined))

\* a link of the chain called with context
callMiddleware(link, context, M) ==
  IF link.fn.kind = "leaf" THEN leafMiddleware(context, M)
  ELSE
    LET M1 == Log(M, "pre", link.fn.id, Undefined)
    IN IF link.fn.kind = "short" THEN Return(M1, RetValue(Null))
       ELSE
         LET M2 == callMiddleware(link.next[1], context, M1)
             M3 == Log(M2, "post", link.fn.id, Undefined)
         IN IF M2.err # "none" \/ M2.full THEN M2
            ELSE IF link.fn.kind = "pass" THEN Return(M3, M2.ret)
            ELSE Return(M3, RetValue(Undefined))

\* typeof result === 'function'
isHigherOrder(result) == result.t = "function"

isUndefinedNever(result) == FALSE

\* result === undefined
isUndefined(result) == result.t = "value" /\ result.v = Undefined

\* result && typeof result.then === 'function'
isThenable(result) == result.t = "promise"

higherOrderCommits(result, stateProp, M) ==
  LET M1 == runThunk(result.fn, 1, Log(M, "thunk", 0, Undefined))
  IN IF M1.err = "none" /\ ~M1.full /\ M1.ret.t = "value" /\ M1.ret.v # Undefined
       THEN consumeResult(M1, stateProp, M1.ret.v)
       ELSE M1

higherOrderDiscards(result, stateProp, M) ==
  LET M1 == runThunk(result.fn, 1, Log(M, "thunk", 0, Undefined))
  IN IF M1.err = "none" /\ ~M1.full THEN Return(M1, RetValue(Undefined)) ELSE M1

\* return result(store)
higherOrder(result, stateProp, M) ==
  runThunk(result.fn, 1, Log(M, "thunk", 0, Undefined))

deferredUnchained(result, stateProp, M) == NewPromise(M, result.v, stateProp, "none")

\* return result.then(consumeResult)
deferred(result, stateProp, M) == NewPromise(M, result.v, stateProp, "consumeResult")

\* the result is committed before it is checked for undefined
leafMiddlewareChecksLate(context, M) ==
  LET stateProp == context.stateProp
      args == nextArgs(M, stateProp, context.args)
  IN IF args.err # "none" THEN Throw(M, args.err)
     ELSE
       LET M1 == Log(M, "action", 0, args.args[1])
           result == UserApply(context.action, args.args)
       IN CASE result.t = "throw" -> Throw(M1, "user error")
            [] isHigherOrder(result) -> higherOrder(result, stateProp, M1)
            [] isThenable(result) -> deferred(result, stateProp, M1)
            [] isUndefined(result) ->
                 Throw(consumeResult(M1, stateProp, result.v),
                       "An action returned an undefined state")
            [] OTHER ->
                 Return(consumeResult(M1, stateProp, result.v), RetValue(Undefined))

leafMiddleware(context, M) ==
  LET stateProp == context.stateProp
      args == nextArgs(M, stateProp, context.args)
  IN IF args.err # "none" THEN Throw(M, args.err)
     ELSE
       LET M1 == Log(M, "action", 0, args.args[1])
           result == UserApply(context.action, args.args)
       IN CASE result.t = "throw" -> Throw(M1, "user error")
            [] isHigherOrder(result) -> higherOrder(result, stateProp, M1)
            [] isUndefined(result) ->
                 Throw(M1, "An action returned an undefined state")
            [] isThenable(result) -> deferred(result, stateProp, M1)
            [] OTHER ->
                 Return(consumeResult(M1, stateProp, result.v), RetValue(Undefined))

\* the thunk result(store) from its step i on
runThunk(fn, i, M) ==
  IF i > Len(fn.script) THEN
    CASE fn.tret = "value" -> Return(M, RetValue(fn.tval))
      [] fn.tret = "promise" -> NewPromise(M, fn.tval, EmptyKey, "none")
      [] OTHER -> Return(M, RetValue(Undefined))
  ELSE
    LET step == fn.script[i]
        M1 == IF step.op = "setState" THEN setState(M, step.state)
              ELSE callTransform(step.path, step.args, M)
    IN IF M1.err # "none" \/ M1.full THEN M1 ELSE runThunk(fn, i + 1, M1)

\* the closure runs the chain twice
callTransformTwice(path, args, M) ==
  IF path \notin DOMAIN transformTree THEN Throw(M, "TypeError")
  ELSE
    LET bound == transformTree[path]
        context == Context(bound.stateProp, bound.actionName, bound.action, args)
        M1 == callMiddleware(applyMiddleware, context, M)
    IN IF M1.err # "none" \/ M1.full THEN M1
       ELSE callMiddleware(applyMiddleware, context, M1)

\* store.$transform.<path>(args): the closure buildAction returns
callTransform(path, args, M) ==
  IF path \notin DOMAIN transformTree THEN Throw(M, "TypeError")
  ELSE
    LET bound == transformTree[path]
    IN callMiddleware(applyMiddleware,
                      Context(bound.stateProp, bound.actionName, bound.action, args), M)

callSelectorCommits(path, args, M) ==
  IF path \notin DOMAIN selectorTree THEN Throw(M, "TypeError")
  ELSE
    LET bound == selectorTree[path]
        a == nextArgs(M, bound.stateProp, args)
    IN IF a.err # "none" THEN Throw(M, a.err)
       ELSE consumeResult(M, bound.stateProp, Body(bound.selector, a.args))

\* store.$selector.<path>(args): the closure buildSelector returns
callSelector(path, args, M) ==
  IF path \notin DOMAIN selectorTree THEN Throw(M, "TypeError")
  ELSE
    LET bound == selectorTree[path]
        a == nextArgs(M, bound.stateProp, args)
    IN IF a.err # "none" THEN Throw(M, a.err)
       ELSE Return(M, RetValue(Body(bound.selector, a.args)))

(***************************************************************************)
(* Construction: sst and initializeStore.                                  *)
(***************************************************************************)
assertValidPropLax(prop) == "none"

\* what assertValidProp throws for prop, "none" when it returns
assertValidProp(prop) == IF prop[1] = "_" THEN "Invalid property" ELSE "none"

\* the closure buildAction returns, with what assertValidProp threw
buildAction(stateProp, actionName, action) ==
  [err |-> assertValidProp(actionName),
   bound |-> [stateProp |-> stateProp, actionName |-> actionName, action |-> action]]

\* the closure buildSelector returns
buildSelector(stateProp, actionName, selector) ==
  [stateProp |-> stateProp, actionName |-> actionName, selector |-> selector]

NoBound == [k \in {} |-> 0]

RECURSIVE nestedFrom(_, _, _, _)
\* the loop of buildNested from member i on; built holds transform and selector
nestedFrom(stateProp, members, i, built) ==
  IF i > Len(members) THEN built
  ELSE
    LET key == members[i].key
    IN IF key[1] = "$"
         THEN nestedFrom(stateProp, members, i + 1,
                [built EXCEPT !.selector =
                   (key :> buildSelector(stateProp, key, members[i].fn)) @@ @])
       ELSE
         LET b == buildAction(stateProp, key, members[i].fn)
         IN IF b.err # "none" THEN [built EXCEPT !.err = b.err]
            ELSE nestedFrom(stateProp, members, i + 1,
                   [built EXCEPT !.transform = (key :> b.bound) @@ @])

IsNotInitialState(m) == m.key # kInitialState

\* initialState is not bound as a transform
buildNestedSkipsInitialState(stateProp, definition) ==
  nestedFrom(stateProp, SelectSeq(definition.members, IsNotInitialState), 1,
             [transform |-> NoBound, selector |-> NoBound, err |-> "none"])

buildNested(stateProp, definition) ==
  nestedFrom(stateProp, definition.members, 1,
             [transform |-> NoBound, selector |-> NoBound, err |-> "none"])

\* definition.initialState, or none
InitialStateOf(definition) ==
  {m \in {definition.members[i] : i \in DOMAIN definition.members} :
     m.key = kInitialState}

\* tree.<key> = built: the paths <<key, k>> for the keys k of built
Graft(tree, key, built) ==
  [p \in {<<key, k>> : k \in DOMAIN built} |-> built[p[2]]] @@ tree

RECURSIVE initializeFrom(_, _, _)
\* the loop of initializeStore from entry i on; S holds root.state,
\* store.$transform, store.$selector and what was thrown
initializeFrom(defs, i, S) ==
  IF i > Len(defs) THEN S
  ELSE
    LET key == defs[i].key
        definition == defs[i]
    IN IF key[1] = "$"
         \* store.$selectors is undefined: the assignment throws
         THEN [S EXCEPT !.err = "TypeError"]
       ELSE IF definition.type = "function"
         THEN LET b == buildAction(EmptyKey, key, definition.fn)
              IN IF b.err # "none" THEN [S EXCEPT !.err = b.err]
                 ELSE initializeFrom(defs, i + 1,
                        [S EXCEPT !.transform = (<<EmptyKey, key>> :> b.bound) @@ @])
       ELSE
         LET built == buildNested(key, definition)
             init == InitialStateOf(definition)
         IN IF built.err # "none" THEN [S EXCEPT !.err = built.err]
            ELSE IF init = {} THEN [S EXCEPT !.err = "TypeError"]
            ELSE
              LET fn == (CHOOSE m \in init : TRUE).fn
                  r == UserApply(fn, <<Get(S.root, key)>>)
              IN IF r.t = "throw" THEN [S EXCEPT !.err = "user error"]
                 ELSE initializeFrom(defs, i + 1,
                        [S EXCEPT !.root = Put(S.root, key, r.v),
                                  !.transform = Graft(@, key, built.transform),
                                  !.selector = Graft(@, key, built.selector)])

initializeStore(rootState, defs) ==
  initializeFrom(defs, 1,
    [root |-> rootState, transform |-> NoBound, selector |-> NoBound, err |-> "none"])

NoOp ==
  [op |-> "none", path |-> <<>>, args |-> <<>>, pre |-> Undefined, hook |-> FALSE,
   trace |-> <<>>, err |-> "none", ret |-> RetValue(Undefined), pr |-> NoPromise]

newRootShared(d) == [state |-> d, shared |-> TRUE]

\* var root = {state: Object.assign({}, defaults)}: root.state is a new
\* object, not the caller's (shared tells whether it is the caller's object)
newRoot(d) == [state |-> ObjectAssign(d), shared |-> FALSE]

\* sst(defaults, definitions, middlewares); initializeStore writes the slices'
\* initial values into root.state in place, and so into the caller's object
\* if root.state is that object
sst ==
  /\ phase = "new"
  /\ LET R == newRoot(defaults)
         S == initializeStore(R.state, definitions)
     IN /\ root' = S.root
        /\ defaults' = IF R.shared THEN S.root ELSE defaults
        /\ transformTree' = S.transform
        /\ selectorTree' = S.selector
        /\ failure' = S.err
        /\ phase' = IF S.err = "none" THEN "ready" ELSE "failed"
        /\ last' = [NoOp EXCEPT !.op = "sst", !.pre = defaults, !.err = S.err]
  /\ applyMiddleware' = buildMiddleware(middlewares)
  /\ UNCHANGED <<definitions, middlewares, onChange, promises>>

(***************************************************************************)
(* Operations on a constructed store.                                      *)
(***************************************************************************)
SliceValues == {Undefined, Null} \cup {Num(i) : i \in 0..MaxNum}

RootValues == {Null, Obj(kCount :> Num(0))}

\* the argument lists a caller passes to a user function
ArgLists(fn, stateProp) ==
  IF fn.body \in {"arg", "init"}
    THEN {<<a>> : a \in (IF stateProp = EmptyKey THEN RootValues ELSE SliceValues)}
    ELSE {<<>>}

\* the store's variables after a synchronous call that ended as M
Finish(M, op, path, args, pr) ==
  /\ ~M.full
  /\ root' = M.root
  /\ promises' = M.promises
  /\ last' = [op |-> op, path |-> path, args |-> args, pre |-> root, hook |-> onChange,
              trace |-> M.trace, err |-> M.err, ret |-> M.ret, pr |-> pr]
  /\ UNCHANGED <<defaults, definitions, middlewares, phase, failure, transformTree,
                 selectorTree, applyMiddleware, onChange>>

Enter == Machine(root, onChange, promises)

\* the caller invokes store.$transform.<path>(args)
Transform(path, args) ==
  /\ phase = "ready"
  /\ Finish(callTransform(path, args, Enter), "transform", path, args, NoPromise)

\* the caller invokes store.$selector.<path>()
Selector(path) ==
  /\ phase = "ready"
  /\ Finish(callSelector(path, <<>>, Enter), "selector", path, <<>>, NoPromise)

\* the caller invokes store.setState(state)
SetState(state) ==
  /\ phase = "ready"
  /\ Finish(setState(Enter, state), "setState", <<>>, <<state>>, NoPromise)

\* the caller assigns store.onChange a hook
AssignOnChange ==
  /\ phase = "ready"
  /\ ~onChange
  /\ onChange' = TRUE
  /\ UNCHANGED <<defaults, definitions, middlewares, phase, failure, root, transformTree,
                 selectorTree, applyMiddleware, promises, last>>

\* promise pr is fulfilled: the reaction result.then(consumeResult) runs, if
\* sst chained one, and then the promise the caller holds is fulfilled
fulfil(M, pr) ==
  LET M1 == [M EXCEPT !.promises = @ (-) SetToBag({pr})]
      M2 == IF pr.then = "consumeResult"
              THEN consumeResult(M1, pr.stateProp, pr.val)
              ELSE M1
  IN Return(Log(M2, "settle", 0, pr.val), RetValue(pr.val))

rejectCommits(M, pr, reason) ==
  LET M1 == [M EXCEPT !.promises = @ (-) SetToBag({pr})]
      M2 == IF pr.then = "consumeResult" THEN consumeResult(M1, pr.stateProp, reason) ELSE M1
  IN Return(Log(M2, "settle", 0, reason), RetValue(reason))

\* promise pr is rejected with reason: consumeResult, the only reaction
\* chained on it, is not called and the promise the caller holds is rejected
\* with the same reason
reject(M, pr, reason) ==
  Log([M EXCEPT !.promises = @ (-) SetToBag({pr})], "reject", 0, reason)

Resolve(pr) ==
  /\ phase = "ready"
  /\ BagIn(pr, promises)
  /\ Finish(fulfil(Enter, pr), "resolve", <<>>, <<>>, pr)

\* the reasons a user's promise is rejected with
Reasons == {Null, Num(1)}

Reject(pr, reason) ==
  /\ phase = "ready"
  /\ BagIn(pr, promises)
  /\ Finish(reject(Enter, pr, reason), "reject", <<>>, <<reason>>, pr)

(***************************************************************************)
(* The inputs of sst.                                                      *)
(***************************************************************************)
\* at most MaxMiddlewares middlewares are passed to sst
MaxMiddlewares == 2
\* the definitions trees built from EntryPool have at most MaxEntries entries
MaxEntries == 2

InitFn == Fn("value", "init")

KeepFn == Fn("value", "state")

SetFn == Fn("value", "arg")

NextFn == Fn("value", "next")

NoneFn == Fn("value", "none")

LaterFn == Fn("promise", "next")

FailFn == Fn("throw", "none")

\* calls count.next twice and returns a number
TwiceFn ==
  HigherOrder(<<CallStep(<<kCount, kNext>>, <<>>), CallStep(<<kCount, kNext>>, <<>>)>>,
              "value", Num(1))

\* calls count.next, then count.none, which throws
OopsFn ==
  HigherOrder(<<CallStep(<<kCount, kNext>>, <<>>), CallStep(<<kCount, kNone>>, <<>>)>>,
              "undefined", Undefined)

\* calls setState, dispatches count.later and returns a promise of an object
RunFn ==
  HigherOrder(<<SetStateStep(Obj(kOther :> Num(1))), CallStep(<<kCount, kLater>>, <<>>)>>,
              "promise", Obj(kCount :> Num(0)))

\* calls nothing and returns undefined
IdleFn == HigherOrder(<<>>, "undefined", Undefined)

OtherSlice == Slice(kOther, <<Member(kInitialState, KeepFn), Member(kNext, NextFn)>>)

\* synchronous transforms and selectors of two slices, and a root transform
SyncTree ==
  <<Slice(kCount, <<Member(kInitialState, InitFn), Member(kSet, SetFn),
                    Member(kNext, NextFn), Member(kNone, NoneFn), Member(kFail, FailFn),
                    Member(kGet, KeepFn)>>),
    OtherSlice,
    RootFn(kReset, SetFn)>>

\* deferred transforms of a slice and of the root
DeferredTree ==
  <<Slice(kCount, <<Member(kInitialState, KeepFn), Member(kNext, NextFn),
                    Member(kLater, LaterFn)>>),
    OtherSlice,
    RootFn(kLoad, Fn("promise", "arg"))>>

\* higher-order transforms of a slice and of the root
ThunkTree ==
  <<Slice(kCount, <<Member(kInitialState, KeepFn), Member(kNext, NextFn),
                    Member(kNone, NoneFn), Member(kLater, LaterFn),
                    Member(kTwice, TwiceFn), Member(kOops, OopsFn)>>),
    RootFn(kRun, RunFn),
    RootFn(kIdle, IdleFn)>>

\* a tree small enough to run under every middleware list
SmallTree ==
  <<Slice(kCount, <<Member(kInitialState, KeepFn), Member(kNext, NextFn),
                    Member(kNone, NoneFn), Member(kLater, LaterFn),
                    Member(kTwice, TwiceFn), Member(kGet, KeepFn)>>)>>

\* entries with and without reserved names
EntryPool ==
  {OtherSlice,
   RootFn(kAll, KeepFn),
   Slice(kPriv, <<Member(kInitialState, InitFn), Member(kNext, NextFn)>>),
   Slice(kName, <<Member(kInitialState, KeepFn), Member(kHidden, NextFn),
                  Member(kSelPriv, KeepFn)>>),
   RootFn(kHidden, KeepFn),
   RootFn(kIdle, IdleFn)}

\* the sequences of 1..n distinct entries of EntryPool
PoolTrees(n) ==
  {t \in UNION {[1..m -> EntryPool] : m \in 1..n} :
     \A i, j \in DOMAIN t : i # j => t[i].key # t[j].key}

MiddlewareKinds == {"pass", "drop", "short"}

\* the middleware lists of length 0..n; middleware i of a list has id i
MiddlewareLists(n) ==
  {[i \in DOMAIN ks |-> Middleware(ks[i], i)] :
     ks \in UNION {[1..m -> MiddlewareKinds] : m \in 0..n}}

Inputs(d, t, m) == [defaults |-> d, definitions |-> t, middlewares |-> m]

Configs ==
  {Inputs(Obj((kCount :> Num(1)) @@ (kName :> Num(1))), t, <<>>) :
     t \in {SyncTree, DeferredTree, ThunkTree}}
  \cup {Inputs(Obj(kName :> Num(1)), SmallTree, m) : m \in MiddlewareLists(MaxMiddlewares)}
  \cup {Inputs(d, t, <<>>) :
          d \in {Undefined, Obj((kOther :> Num(1)) @@ (kName :> Num(1)))},
          t \in PoolTrees(MaxEntries)}

Init ==
  /\ \E c \in Configs :
       /\ defaults = c.defaults
       /\ definitions = c.definitions
       /\ middlewares = c.middlewares
  /\ phase = "new"
  /\ failure = "none"
  /\ root = Undefined
  /\ transformTree = NoBound
  /\ selectorTree = NoBound
  /\ applyMiddleware = LeafLink
  /\ onChange = FALSE
  /\ promises = EmptyBag
  /\ last = NoOp

Next ==
  \/ sst
  \/ \E path \in DOMAIN transformTree :
       \E args \in ArgLists(transformTree[path].action, transformTree[path].stateProp) :
         Transform(path, args)
  \/ \E path \in DOMAIN selectorTree : Selector(path)
  \/ \E state \in RootValues : SetState(state)
  \/ AssignOnChange
  \/ \E pr \in BagToSet(promises) : Resolve(pr)
  \/ \E pr \in BagToSet(promises) : \E reason \in Reasons : Reject(pr, reason)

Spec == Init /\ [][Next]_vars

(***************************************************************************)
(* Properties.  They read the record of the latest operation: what it was  *)
(* given (op, path, args, pr), the snapshot and hook before it (pre,       *)
(* hook), what happened during it (trace) and how it ended (err, ret).     *)
(***************************************************************************)
IsTransform == last.op = "transform"

\* the bound transform the latest operation called
LastBound == transformTree[last.path]

\* the number of events of kind e during the latest operation
CountOf(e) == Cardinality({i \in DOMAIN last.trace : last.trace[i].e = e})

\* the user function of the called transform was invoked
Invoked == IsTransform /\ CountOf("action") > 0

\* the call of the user function of the called transform
FirstAction ==
  last.trace[CHOOSE i \in DOMAIN last.trace :
               /\ last.trace[i].e = "action"
               /\ \A j \in 1..(i - 1) : last.trace[j].e # "action"]

\* what that user function computed from the state it was passed
LastResult == Body(LastBound.action, <<FirstAction.arg>> \o last.args)

\* the user function returned a plain value: not undefined, a function or a promise
ReturnedPlain == Invoked /\ LastBound.action.res = "value" /\ LastResult # Undefined

FieldsOf(v) == IF v.tag = "object" THEN DOMAIN v.f ELSE {}

\* C1: after a slice transform whose user function returned a plain value v,
\* getState()[slice] is v and every other field of the root snapshot holds
\* the value it held before the call.
C1_SliceValueCommit ==
  (ReturnedPlain /\ LastBound.stateProp # EmptyKey) =>
    /\ root.tag = "object"
    /\ LastBound.stateProp \in DOMAIN root.f
    /\ root.f[LastBound.stateProp] = LastResult
    /\ \A k \in (FieldsOf(root) \cup FieldsOf(last.pre)) \ {LastBound.stateProp} :
         /\ k \in FieldsOf(root)
         /\ k \in FieldsOf(last.pre)
         /\ root.f[k] = last.pre.f[k]

\* a slice transform returned null over a snapshot with other fields
C1_Witness ==
  /\ ReturnedPlain
  /\ LastBound.stateProp = kCount
  /\ LastResult = Null
  /\ Get(last.pre, kCount) # Null
  /\ Get(root, kCount) = Null
  /\ {kOther, kName} \subseteq FieldsOf(last.pre)

\* C2: after a root transform whose user function returned a plain value v,
\* getState() is exactly v.
C2_RootValueReplaces ==
  (ReturnedPlain /\ LastBound.stateProp = EmptyKey) => root = LastResult

\* a root transform returned an object that lacks fields of the old snapshot
C2_Witness ==
  /\ ReturnedPlain
  /\ LastBound.stateProp = EmptyKey
  /\ LastResult.tag = "object"
  /\ root = LastResult
  /\ FieldsOf(last.pre) \ FieldsOf(LastResult) # {}

\* the keys of a definitions tree: of its entries and of its slices' members
RootKeys(defs) == {defs[i].key : i \in DOMAIN defs}

MemberKeys(defs) ==
  UNION {{defs[i].members[j].key : j \in DOMAIN defs[i].members} : i \in DOMAIN defs}

\* no key of the tree begins with _
NoNamingViolation(defs) == \A key \in RootKeys(defs) \cup MemberKeys(defs) : key[1] # "_"

\* the slice definitions of a tree
SliceEntries(defs) ==
  {defs[i] : i \in {j \in DOMAIN defs : defs[j].type = "object" /\ defs[j].key[1] # "$"}}

\* the defaults with each slice's field replaced by initialState(defaults[slice])
ExpectedInitial(d, defs) ==
  Obj([k \in FieldsOf(d) \cup {e.key : e \in SliceEntries(defs)} |->
         IF \E e \in SliceEntries(defs) : e.key = k
           THEN LET e == CHOOSE x \in SliceEntries(defs) : x.key = k
                    init == CHOOSE m \in InitialStateOf(e) : TRUE
                IN Body(init.fn, <<Get(d, k)>>)
           ELSE d.f[k]])

\* C3: for every definitions tree with no key beginning with _, root
\* selectors included, sst returns a store whose snapshot is the defaults
\* with each slice's field replaced by initialState(defaults[slice]).
C3_ConstructionSucceeds ==
  (last.op = "sst" /\ NoNamingViolation(definitions)) =>
    /\ phase = "ready"
    /\ root = ExpectedInitial(defaults, definitions)

\* the user function returned undefined
ReturnedUndefined == Invoked /\ LastBound.action.res = "value" /\ LastResult = Undefined

\* C4: when a transform's user function returns undefined, the call throws
\* the undefined-state error, nothing is committed, getState() is the
\* snapshot from before the call and onChange is not invoked.
C4_UndefinedResultFails ==
  ReturnedUndefined =>
    /\ last.err = "An action returned an undefined state"
    /\ root = last.pre
    /\ CountOf("commit") = 0
    /\ CountOf("change") = 0

\* a transform returned undefined with onChange assigned
C4_Witness ==
  /\ ReturnedUndefined
  /\ last.hook
  /\ last.err = "An action returned an undefined state"
  /\ root = last.pre

\* the user function returned a thunk
ReturnedThunk == Invoked /\ LastBound.action.res = "function"

\* the commits a thunk's store calls make: one per setState and one per call
\* of a transform that returns a number
ScriptCommits(script) ==
  Cardinality({i \in DOMAIN script :
    \/ script[i].op = "setState"
    \/ /\ script[i].op = "transform"
       /\ script[i].path \in DOMAIN transformTree
       /\ transformTree[script[i].path].action.res = "value"
       /\ transformTree[script[i].path].action.body = "next"})

\* the snapshot of the latest commit of the latest operation
LastCommitted ==
  last.trace[CHOOSE i \in DOMAIN last.trace :
               /\ last.trace[i].e = "commit"
               /\ \A j \in DOMAIN last.trace : j > i => last.trace[j].e # "commit"].arg

\* C5: a higher-order transform's thunk is invoked and what the thunk
\* returns (a value, undefined, or a promise and what it resolves to) is
\* never committed: the commits of the call are those of the store calls the
\* thunk makes.
C5_ThunkResultNotCommitted ==
  /\ ReturnedThunk =>
       /\ CountOf("thunk") = 1
       /\ CountOf("commit") <= ScriptCommits(LastBound.action.script)
       /\ last.err = "none" =>
            CountOf("commit") = ScriptCommits(LastBound.action.script)
       /\ root = IF CountOf("commit") = 0 THEN last.pre ELSE LastCommitted
  /\ (last.op = "resolve" /\ last.pr.then = "none") =>
       /\ root = last.pre
       /\ CountOf("commit") = 0

\* a thunk called two transforms and returned a number that is not the state
C5_Witness ==
  /\ ReturnedThunk
  /\ last.err = "none"
  /\ LastBound.action.tret = "value"
  /\ last.ret = RetValue(LastBound.action.tval)
  /\ CountOf("commit") = 2
  /\ Get(root, kCount) # LastBound.action.tval

\* the user function returned a promise
ReturnedPromise == Invoked /\ LastBound.action.res = "promise"

\* C6: when a transform whose user function returned a promise returns,
\* getState() is the snapshot from before the call; when the promise is
\* fulfilled with v, v is committed to the slice (or as the root) and the
\* promise handed to the caller is fulfilled after that commit.
C6_DeferredCommit ==
  /\ ReturnedPromise =>
       /\ root = last.pre
       /\ CountOf("commit") = 0
       /\ BagIn(Promise(LastResult, LastBound.stateProp, "consumeResult"), promises)
  /\ (last.op = "resolve" /\ last.pr.then = "consumeResult") =>
       /\ IF last.pr.stateProp = EmptyKey
            THEN root = last.pr.val
            ELSE /\ last.pr.stateProp \in FieldsOf(root)
                 /\ root.f[last.pr.stateProp] = last.pr.val
       /\ CountOf("commit") = 1
       /\ CountOf("settle") = 1
       /\ \E i, j \in DOMAIN last.trace :
            /\ i < j
            /\ last.trace[i].e = "commit"
            /\ last.trace[j].e = "settle"
            /\ last.trace[j].seen = root

\* a slice transform's promise was fulfilled with a value the slice did not hold
C6_Witness ==
  /\ last.op = "resolve"
  /\ last.pr.then = "consumeResult"
  /\ last.pr.stateProp = kCount
  /\ Get(last.pre, kCount) # last.pr.val
  /\ Get(root, kCount) = last.pr.val

\* C7: a selector call leaves getState() the same snapshot, calls neither
\* setState nor onChange and does not enter the middleware chain.
C7_SelectorsReadOnly ==
  last.op = "selector" => (root = last.pre /\ last.trace = <<>>)

\* a selector returned the slice's value
C7_Witness ==
  /\ last.op = "selector"
  /\ last.err = "none"
  /\ last.ret.v # Undefined
  /\ last.ret.v = Get(root, last.path[1])

\* every middleware of the list calls next(context) once
AllProceed == \A i \in DOMAIN middlewares : middlewares[i].kind \in {"pass", "drop"}

NotChange(ev) == ev.e # "change"

\* the kinds and middleware ids of the events of the latest operation, in
\* order, onChange calls left out
Shape ==
  LET tr == SelectSeq(last.trace, NotChange)
  IN [i \in DOMAIN tr |-> <<tr[i].e, tr[i].id>>]

\* the code before proceed of m0 .. mn-1, and the code after it of mn-1 .. m0
PreEvents == [i \in DOMAIN middlewares |-> <<"pre", i>>]

PostEvents == [i \in DOMAIN middlewares |-> <<"post", Len(middlewares) + 1 - i>>]

\* the user transform and its commit, for a transform that is not higher-order
CoreEvents(fn) ==
  IF fn.res = "value" THEN <<(<<"action", 0>>), (<<"commit", 0>>)>> ELSE <<(<<"action", 0>>)>>

RECURSIVE ScriptEvents(_, _)
\* the events of a thunk's store calls from step i on
ScriptEvents(script, i) ==
  IF i > Len(script) THEN <<>>
  ELSE (IF script[i].op = "setState" THEN <<(<<"commit", 0>>)>>
        ELSE PreEvents \o CoreEvents(transformTree[script[i].path].action) \o PostEvents)
       \o ScriptEvents(script, i + 1)

\* C8: with middlewares m0 .. mn-1 that each call proceed once, a transform
\* invocation that returns runs the code before proceed of m0, .., mn-1, then
\* the user transform and its commit, then the code after proceed of mn-1,
\* .., m0; the invocations a thunk makes run the same chain.
C8_MiddlewareOrder ==
  (IsTransform /\ AllProceed /\ last.err = "none") =>
    Shape = PreEvents
            \o (IF LastBound.action.res = "function"
                  THEN <<(<<"action", 0>>), (<<"thunk", 0>>)>>
                       \o ScriptEvents(LastBound.action.script, 1)
                  ELSE CoreEvents(LastBound.action))
            \o PostEvents

\* a value transform ran under two middlewares
C8_Witness ==
  /\ IsTransform
  /\ Len(middlewares) = 2
  /\ AllProceed
  /\ last.err = "none"
  /\ Shape = <<(<<"pre", 1>>), (<<"pre", 2>>), (<<"action", 0>>), (<<"commit", 0>>),
               (<<"post", 2>>), (<<"post", 1>>)>>

\* C9: with onChange assigned it is invoked once per commit, right after the
\* snapshot is installed and with that snapshot; a value transform, a
\* fulfilled deferred transform and a direct setState commit once, and a
\* failed transform, a selector call, a dispatch of a deferred transform and
\* the thunk level of a higher-order transform do not invoke it.
C9_OnChangePerCommit ==
  /\ \A i \in DOMAIN last.trace :
       /\ (last.trace[i].e = "commit" /\ last.hook) =>
            /\ i + 1 \in DOMAIN last.trace
            /\ last.trace[i + 1].e = "change"
            /\ last.trace[i + 1].arg = last.trace[i].arg
            /\ last.trace[i + 1].seen = last.trace[i].arg
       /\ last.trace[i].e = "change" =>
            /\ last.hook
            /\ i > 1
            /\ last.trace[i - 1].e = "commit"
  /\ last.hook =>
       /\ last.op = "setState" => CountOf("change") = 1
       /\ ReturnedPlain => CountOf("change") = 1
       /\ (last.op = "resolve" /\ last.pr.then = "consumeResult") => CountOf("change") = 1
       /\ (last.op = "resolve" /\ last.pr.then = "none") => CountOf("change") = 0
       /\ last.op \in {"selector", "reject"} => CountOf("change") = 0
       /\ ReturnedPromise => CountOf("change") = 0
       /\ (IsTransform /\ last.err # "none" /\ ~ReturnedThunk) => CountOf("change") = 0
       /\ (ReturnedThunk /\ last.err = "none") =>
            CountOf("change") = ScriptCommits(LastBound.action.script)

\* onChange was invoked once for a value transform's commit
C9_Witness ==
  /\ last.hook
  /\ ReturnedPlain
  /\ root # last.pre
  /\ CountOf("change") = 1
  /\ \E i \in DOMAIN last.trace :
       last.trace[i].e = "change" /\ last.trace[i].arg = root /\ last.trace[i].seen = root

\* a root transform key or a slice action key of the tree begins with _
ReservedFunctionKey(defs, i) ==
  \/ defs[i].type = "function" /\ defs[i].key[1] = "_"
  \/ /\ defs[i].type = "object"
     /\ defs[i].key[1] # "$"
     /\ \E j \in DOMAIN defs[i].members : defs[i].members[j].key[1] = "_"

\* C10 as stated: if a slice name, a root transform key or a slice action key
\* begins with _, sst aborts with the naming violation and returns no store.
\* (Trees with a root key beginning with $ abort for another reason, see C3,
\* and are left out.)
C10_ReservedPrefixAborts ==
  (/\ last.op = "sst"
   /\ ~NoNamingViolation(definitions)
   /\ \A key \in RootKeys(definitions) : key[1] # "$") =>
    (phase = "failed" /\ failure = "Invalid property")

\* C10 amended: if a root transform key or a slice action key begins with _,
\* sst aborts and returns no store, with the naming violation when no earlier
\* entry of the tree has a key beginning with $; and the naming violation is
\* raised for such keys only, never for a slice's name.
C10_ReservedFunctionKeyAborts ==
  last.op = "sst" =>
    /\ (\E i \in DOMAIN definitions : ReservedFunctionKey(definitions, i)) =>
         phase = "failed"
    /\ (\E i \in DOMAIN definitions :
          /\ ReservedFunctionKey(definitions, i)
          /\ \A j \in 1..(i - 1) : definitions[j].key[1] # "$") =>
         failure = "Invalid property"
    /\ failure = "Invalid property" =>
         \E i \in DOMAIN definitions : ReservedFunctionKey(definitions, i)
    /\ (\A i \in DOMAIN definitions :
          /\ ~ReservedFunctionKey(definitions, i)
          /\ definitions[i].key[1] # "$") =>
         phase = "ready"

\* sst aborted on a reserved key of a tree that also holds a slice named _priv
C10_Witness ==
  /\ last.op = "sst"
  /\ failure = "Invalid property"
  /\ phase = "failed"
  /\ definitions[1].key = kPriv
  /\ ~ReservedFunctionKey(definitions, 1)

\* the caller's invocation ran under an empty middleware list and returned
Unwrapped == IsTransform /\ middlewares = <<>> /\ last.err = "none"

\* C11: a transform whose user function returns a plain value v returns v,
\* the committed slice or root value, to its caller when the middleware list
\* is empty.
C11_SyncReturnsValue ==
  (Unwrapped /\ ReturnedPlain) =>
    /\ last.ret = RetValue(LastResult)
    /\ last.ret.v = (IF LastBound.stateProp = EmptyKey THEN root
                     ELSE Get(root, LastBound.stateProp))

\* what the thunk of a higher-order transform hands back
ThunkReturn(fn) ==
  CASE fn.tret = "value" -> RetValue(fn.tval)
    [] fn.tret = "promise" -> RetPromise(Promise(fn.tval, EmptyKey, "none"))
    [] OTHER -> RetValue(Undefined)

\* C12 as stated: whatever the thunk of a higher-order transform returns, the
\* caller of the transform receives undefined when the middleware list is empty.
C12_ThunkReturnDiscarded ==
  (Unwrapped /\ ReturnedThunk) => last.ret = RetValue(Undefined)

\* C12 amended: the thunk's return value is never committed, and with an empty
\* middleware list the caller of the higher-order transform receives what the
\* thunk returned: its value, its promise, or undefined.
C12_ThunkReturnPassedOn ==
  (Unwrapped /\ ReturnedThunk) =>
    /\ last.ret = ThunkReturn(LastBound.action)
    /\ CountOf("commit") = ScriptCommits(LastBound.action.script)
    /\ last.ret.t = "promise" => BagIn(last.ret.pr, promises)

\* a thunk returned a promise, which the caller received and nothing chained on
C12_Witness ==
  /\ Unwrapped
  /\ ReturnedThunk
  /\ LastBound.action.tret = "promise"
  /\ last.ret.t = "promise"
  /\ last.ret.pr.then = "none"
  /\ BagIn(last.ret.pr, promises)

\* the root snapshot, or its slice stateProp
Sub(state, stateProp) == IF stateProp = EmptyKey THEN state ELSE Get(state, stateProp)

IsAction(ev) == ev.e = "action"

IsCall(step) == step.op = "transform"

\* the calls of user transforms during the latest operation, in order
ActionEvents == SelectSeq(last.trace, IsAction)

\* the snapshot installed by the commits up to event i of the latest
\* operation: the latest of them, or the snapshot from before the operation
StateAt(i) ==
  LET commits == {j \in 1..i : last.trace[j].e = "commit"}
  IN IF commits = {} THEN last.pre
     ELSE last.trace[CHOOSE j \in commits : \A k \in commits : k <= j].arg

\* a value transform has committed and the caller now calls a transform of the
\* same target, or of a slice after a root transform: its user function is
\* passed what the first call committed
ReadsPreviousCommit ==
  (/\ ReturnedPlain
   /\ last.err = "none"
   /\ onChange' = onChange
   /\ IsTransform'
   /\ Invoked') =>
    /\ LastBound'.stateProp = LastBound.stateProp => FirstAction'.arg = LastResult
    /\ (LastBound.stateProp = EmptyKey /\ LastBound'.stateProp # EmptyKey) =>
         FirstAction'.arg = Get(LastResult, LastBound'.stateProp)

\* every user transform called during the latest operation, the caller's and
\* those a thunk calls, is passed the state as committed so far, and
\* getState() returns the latest commit at every moment of the operation
ReadsAtCallTime ==
  /\ \A i \in DOMAIN last.trace : last.trace[i].seen = StateAt(i)
  /\ Invoked => FirstAction.arg = Sub(last.pre, LastBound.stateProp)
  /\ (ReturnedThunk /\ AllProceed) =>
       LET steps == SelectSeq(LastBound.action.script, IsCall)
       IN \A k \in 2..Len(ActionEvents) :
            ActionEvents[k].arg =
              Sub(ActionEvents[k].seen, transformTree[steps[k - 1].path].stateProp)

\* C13: transforms read state at call time: of two synchronous transform calls
\* in sequence, back-to-back from the caller or inside a thunk, the second
\* call's user function is passed the value the first committed, and inside a
\* thunk getState() reflects every commit made so far.
C13_ReadsCommittedState == [][ReadsPreviousCommit]_vars /\ []ReadsAtCallTime

\* a thunk called the same transform twice and the second call was passed the
\* value the first committed, which is not the value the first was passed
C13_Witness ==
  /\ ReturnedThunk
  /\ last.err = "none"
  /\ Len(ActionEvents) = 3
  /\ CountOf("commit") = 2
  /\ ActionEvents[3].arg = Succ(ActionEvents[2].arg)
  /\ ActionEvents[3].arg # ActionEvents[2].arg
  /\ ActionEvents[3].arg # Sub(last.pre, kCount)

\* a promise that sst chained consumeResult on was fulfilled
Fulfilled == last.op = "resolve" /\ last.pr.then = "consumeResult"

\* C14: a deferred slice transform's user function is passed the slice's
\* value at dispatch, and when its promise is fulfilled with v the commit
\* copies the snapshot current at that moment: getState()[A] is v and every
\* other field holds what the commits made in between left there.
C14_DeferredCopiesCurrent ==
  /\ (ReturnedPromise /\ LastBound.stateProp # EmptyKey) =>
       /\ FirstAction.arg = Get(last.pre, LastBound.stateProp)
       /\ BagIn(Promise(Body(LastBound.action, <<FirstAction.arg>> \o last.args),
                        LastBound.stateProp, "consumeResult"), promises)
  /\ (Fulfilled /\ last.pr.stateProp # EmptyKey) =>
       /\ root.tag = "object"
       /\ FieldsOf(root) = FieldsOf(last.pre) \cup {last.pr.stateProp}
       /\ root.f[last.pr.stateProp] = last.pr.val
       /\ \A k \in FieldsOf(root) \ {last.pr.stateProp} : root.f[k] = last.pre.f[k]

\* a deferred transform of count was fulfilled after other and count had been
\* committed to: other keeps its new value and count is the promised value,
\* which is not what the user function would compute from the current count
C14_Witness ==
  /\ Fulfilled
  /\ last.pr.stateProp = kCount
  /\ Get(root, kOther) # Get(defaults, kOther)
  /\ Get(root, kOther) = Get(last.pre, kOther)
  /\ Get(root, kCount) = last.pr.val
  /\ last.pr.val # Succ(Get(last.pre, kCount))

\* C15: when the promise a transform's user function returned is rejected,
\* nothing is committed, onChange is not invoked, getState() is unchanged and
\* the promise handed to the caller is rejected with the same reason.
C15_RejectionNoCommit ==
  last.op = "reject" =>
    /\ root = last.pre
    /\ last.err = "none"
    /\ last.trace = <<Event("reject", 0, last.args[1], last.pre)>>

\* the promise of a deferred slice transform was rejected with a reason that
\* is not the slice's value, with onChange assigned
C15_Witness ==
  /\ last.op = "reject"
  /\ last.pr.then = "consumeResult"
  /\ last.pr.stateProp = kCount
  /\ last.hook
  /\ last.args[1] # Get(root, kCount)
  /\ CountOf("reject") = 1
  /\ root = last.pre

\* C16: store.setState(s) called by the caller makes getState() return s,
\* returns s, invokes onChange once with s when it is assigned, and runs no
\* middleware and no user transform.
C16_SetStateReplaces ==
  last.op = "setState" =>
    /\ root = last.args[1]
    /\ last.ret = RetValue(last.args[1])
    /\ last.err = "none"
    /\ last.trace = <<Event("commit", 0, last.args[1], last.args[1])>>
                    \o (IF last.hook
                          THEN <<Event("change", 0, last.args[1], last.args[1])>>
                          ELSE <<>>)

\* setState replaced a snapshot by an object that lacks some of its fields,
\* under a middleware list and with onChange assigned
C16_Witness ==
  /\ last.op = "setState"
  /\ last.hook
  /\ middlewares # <<>>
  /\ root = last.args[1]
  /\ root.tag = "object"
  /\ FieldsOf(last.pre) \ FieldsOf(root) # {}
  /\ CountOf("change") = 1

\* the root-level functions of a tree whose key begins with $
RootSelectorKeys(defs) ==
  {defs[i].key : i \in {j \in DOMAIN defs : defs[j].type = "function" /\ defs[j].key[1] = "$"}}

\* a bound selector call returns the user selector applied to the state read
\* at the call
SelectorApplied ==
  (last.op = "selector" /\ last.err = "none") =>
    last.ret = RetValue(Body(selectorTree[last.path].selector,
                             <<Sub(root, selectorTree[last.path].stateProp)>> \o last.args))

\* C17: a bound selector call returns the user selector applied to the
\* current slice state, read at the call; a root-level function whose key
\* begins with $ is built by sst as a root selector, bound to the whole root
\* snapshot.
C17_SelectorsBound ==
  /\ SelectorApplied
  /\ (last.op = "sst" /\ NoNamingViolation(definitions)) =>
       \A key \in RootSelectorKeys(definitions) :
         /\ phase = "ready"
         /\ <<EmptyKey, key>> \in DOMAIN selectorTree
         /\ selectorTree[<<EmptyKey, key>>].stateProp = EmptyKey

\* the latest operation is a transform call that threw at the call site
Failed == IsTransform /\ last.err # "none"

\* C18 as stated: after a transform call that ends in an error, the user
\* function throwing, an undefined result, or a failure inside a thunk that
\* has already called other transforms, getState() is the snapshot from
\* before the call.
C18_FailedLeavesState == Failed => root = last.pre

\* C18 amended: a transform call that fails because its user function throws
\* or returns undefined commits nothing and leaves getState() as before the
\* call; when the failure is raised inside a thunk, the failing inner call
\* commits nothing and the commits of the store calls the thunk completed
\* before it remain.
C18_FailedCommitsNothingItself ==
  Failed =>
    /\ ~ReturnedThunk => (root = last.pre /\ CountOf("commit") = 0)
    /\ ReturnedThunk =>
         /\ root = IF CountOf("commit") = 0 THEN last.pre ELSE LastCommitted
         /\ CountOf("commit") <= ScriptCommits(LastBound.action.script)
         /\ last.trace[Len(last.trace)].e \in {"action", "pre", "thunk"}

\* a thunk failed in its second call after its first call had committed
C18_Witness ==
  /\ Failed
  /\ ReturnedThunk
  /\ last.err = "An action returned an undefined state"
  /\ CountOf("commit") = 1
  /\ root = LastCommitted
  /\ root # last.pre

\* some middleware of the list returns without calling next
ShortCircuits == \E i \in DOMAIN middlewares : middlewares[i].kind = "short"

\* the first such middleware
FirstShort ==
  CHOOSE i \in DOMAIN middlewares :
    /\ middlewares[i].kind = "short"
    /\ \A j \in 1..(i - 1) : middlewares[j].kind # "short"

\* C19: when a middleware returns without calling proceed, no later
\* middleware runs, the user transform is not invoked, nothing is committed,
\* onChange is not invoked, getState() is unchanged and the caller receives
\* what the middlewares outside it make of its result.
C19_ShortCircuit ==
  (IsTransform /\ ShortCircuits) =>
    /\ Shape = [i \in 1..FirstShort |-> <<"pre", i>>]
               \o [i \in 1..(FirstShort - 1) |-> <<"post", FirstShort - i>>]
    /\ CountOf("action") = 0
    /\ CountOf("commit") = 0
    /\ CountOf("change") = 0
    /\ root = last.pre
    /\ last.err = "none"
    /\ last.ret = IF \E j \in 1..(FirstShort - 1) : middlewares[j].kind = "drop"
                    THEN RetValue(Undefined) ELSE RetValue(Null)

\* the second of two middlewares short-circuited and the first passed its
\* result on to the caller
C19_Witness ==
  /\ IsTransform
  /\ Len(middlewares) = 2
  /\ middlewares[1].kind = "pass"
  /\ middlewares[2].kind = "short"
  /\ last.hook
  /\ Shape = <<(<<"pre", 1>>), (<<"pre", 2>>), (<<"post", 1>>)>>
  /\ last.ret = RetValue(Null)

\* the events of kind e of middleware id during the latest operation
EventsOf(e, id) == {i \in DOMAIN last.trace : last.trace[i].e = e /\ last.trace[i].id = id}

\* C20: for a value transform every middleware runs once per invocation; its
\* code before proceed reads the snapshot from before the call and its code
\* after proceed reads the snapshot with the transform's commit applied.
C20_MiddlewareSeesCommit ==
  /\ ReturnedPlain =>
       \A m \in DOMAIN middlewares :
         /\ Cardinality(EventsOf("pre", m)) = 1
         /\ Cardinality(EventsOf("post", m)) = 1
         /\ \A i \in EventsOf("pre", m) : last.trace[i].seen = last.pre
         /\ \A i \in EventsOf("post", m) :
              /\ last.trace[i].seen = root
              /\ Sub(last.trace[i].seen, LastBound.stateProp) = LastResult
  /\ (ReturnedThunk /\ AllProceed /\ last.err = "none") =>
       \A m \in DOMAIN middlewares :
         /\ Cardinality(EventsOf("pre", m)) = Len(ActionEvents)
         /\ Cardinality(EventsOf("post", m)) = Len(ActionEvents)
         /\ Len(ActionEvents) = 1 + Len(SelectSeq(LastBound.action.script, IsCall))

\* a value transform changed the state under two middlewares
C20_Witness ==
  /\ ReturnedPlain
  /\ Len(middlewares) = 2
  /\ root # last.pre
  /\ \A m \in DOMAIN middlewares :
       /\ \E i \in EventsOf("pre", m) : last.trace[i].seen = last.pre
       /\ \E i \in EventsOf("post", m) : last.trace[i].seen = root

\* the caller called the bound initialState of a slice
CalledInitialState == IsTransform /\ last.path[2] = kInitialState

Pending(stateProp) ==
  {p \in BagToSet(promises) : p.stateProp = stateProp /\ p.then = "consumeResult"}

\* when a deferred transform is fulfilled its value is committed over
\* whatever its target holds
LastWriterWins ==
  Fulfilled =>
    IF last.pr.stateProp = EmptyKey THEN root = last.pr.val
    ELSE Get(root, last.pr.stateProp) = last.pr.val

\* of two deferred transforms of one target fulfilled one after the other,
\* the second determines the target's value
SecondFulfilmentWins ==
  (/\ Fulfilled
   /\ promises' # promises
   /\ Fulfilled'
   /\ last'.pr.stateProp = last.pr.stateProp) =>
    Sub(root', last'.pr.stateProp) = last'.pr.val

\* C22: a deferred commit is last-writer-wins at fulfilment: a deferred slice
\* transform sets the slice to its value whatever was committed to the slice
\* since dispatch, a deferred root transform replaces the whole snapshot, and
\* of two deferred transforms in flight the one fulfilled last determines the
\* final value whatever the order of dispatch.
C22_DeferredLastWriterWins == []LastWriterWins /\ [][SecondFulfilmentWins]_vars

\* a deferred transform of count was fulfilled over a value committed since
\* its dispatch while another one with a different value was still in flight
C22_Witness ==
  /\ Fulfilled
  /\ last.pr.stateProp = kCount
  /\ Get(last.pre, kCount) # last.pr.val
  /\ Get(root, kCount) = last.pr.val
  /\ \E p \in Pending(kCount) : p.val # last.pr.val

\* C23: sst and every later operation leave the caller's defaults object as
\* it was passed: the slices' initial values are written into the store's own
\* copy only.
C23_DefaultsUntouched == [][defaults' = defaults]_vars

\* a store was built whose snapshot has a slice the defaults lack, and a
\* transform has since committed
C23_Witness ==
  /\ phase = "ready"
  /\ ReturnedPlain
  /\ defaults.tag = "object"
  /\ FieldsOf(root) \ FieldsOf(defaults) # {}
  /\ \E k \in FieldsOf(defaults) : Get(root, k) # Get(defaults, k)

====
